---- MODULE Spec2Model ----
(***************************************************************************)
(* A model of package patcher (patcher.go): a Patcher accumulates edit     *)
(* records (offset, length, data) through Delete / InsertBytes /           *)
(* RewriteBytes and PatchBytes sorts them in place by offset, validates    *)
(* them against an input and builds the output.                            *)
(*                                                                         *)
(* Bytes are small naturals, byte slices and strings are sequences.  Go's  *)
(* int is modelled as an IntBits-wide two's complement integer.            *)
(***************************************************************************)
EXTENDS Integers, Sequences, FiniteSets, TLC

\* ------------------------------------------------------------------------
\* Bounds of the model
\* ------------------------------------------------------------------------

\* Width of Go's int in the model (64 on the usual targets).
IntBits == 8

\* Largest number of edit records a Patcher holds in the model.
MaxPatches == 3

\* Largest number of edit records in the integer edge-case specification.
MaxPatchesInt == 3

RECURSIVE Pow2(_)
Pow2(n) == IF n = 0 THEN 1 ELSE 2 * Pow2(n - 1)

MaxInt == Pow2(IntBits - 1) - 1
MinInt == -Pow2(IntBits - 1)

\* Go's int addition: two's complement wrap-around.
Add(a, b) == ((a + b - MinInt) % Pow2(IntBits)) + MinInt

\* ------------------------------------------------------------------------
\* Inputs of the operations
\* ------------------------------------------------------------------------

\* The input blocks: "", "ab", "abc" with bytes 1, 2, 3.
InputLens == {0, 2, 3}
InputOf(n) == [i \in 1..n |-> i]
Inputs == {InputOf(n) : n \in InputLens}

\* Arguments of the operations in the specification Spec.
Offsets == {0, 1, 2}
Lengths == {0, 1, 2}
InsertDatas == {<<>>, <<10>>, <<11>>}
RewriteLengths == {0, 1}
RewriteDatas == {<<>>, <<12>>}

\* Arguments of the operations in the specification SpecInt: the edges of int.
IntOffsets == {-1, 1, MaxInt}
IntLengths == {-1, 0, 1, MaxInt}
IntDatas == {<<>>, <<10>>}

\* ------------------------------------------------------------------------
\* type patch
\* ------------------------------------------------------------------------

patch(o, l, d) == [offset |-> o, length |-> l, data |-> d]

\* patch.String: "(%d,%d,%s)" of offset, length and data; the rendering is
\* kept as the triple of the three rendered fields.
String(p) == <<p.offset, p.length, p.data>>

\* ------------------------------------------------------------------------
\* State
\* ------------------------------------------------------------------------

VARIABLES
    patches,    \* Patcher.patches
    calls,      \* history: the edits requested since creation or the last
                \* Reset, in call order, without the edits that neither
                \* consume nor write anything
    lastOp,     \* the last operation called
    input,      \* the input of the operation just called, if it was PatchBytes
    ret         \* what the operation just called returned, if it was PatchBytes

vars == <<patches, calls, lastOp, input, ret>>

NoRet == [status |-> "none", output |-> <<>>, err |-> <<>>]

\* Patcher.Empty
Empty == Len(patches) = 0

\* ------------------------------------------------------------------------
\* PatchBytes
\* ------------------------------------------------------------------------

\* A less function that also holds of equal offsets.
LessOrEqual(a, b) == a.offset <= b.offset

\* The less function handed to sort.SliceStable.
Less(a, b) == a.offset < b.offset

\* An insertion that places p in front of the elements of equal offset.
RECURSIVE InsertUnstable(_, _)
InsertUnstable(s, p) ==
    IF s = <<>> THEN <<p>>
    ELSE IF p.offset <= Head(s).offset THEN <<p>> \o s
    ELSE <<Head(s)>> \o InsertUnstable(Tail(s), p)

\* Insert p into the sorted s behind every element that is not greater.
RECURSIVE InsertStable(_, _)
InsertStable(s, p) ==
    IF s = <<>> THEN <<p>>
    ELSE IF Less(p, Head(s)) THEN <<p>> \o s
    ELSE <<Head(s)>> \o InsertStable(Tail(s), p)

\* sort.SliceStable(p.patches, less): a stable sort.
RECURSIVE SliceStable(_)
SliceStable(s) ==
    IF s = <<>> THEN <<>>
    ELSE InsertStable(SliceStable(SubSeq(s, 1, Len(s) - 1)), s[Len(s)])

\* A validation loop that takes touching records for a conflict.
RECURSIVE ValidateTouching(_, _, _)
ValidateTouching(ps, in, i) ==
    IF i > Len(ps) THEN <<>>
    ELSE IF ps[i].offset < 0 THEN <<"negative offset", String(ps[i])>>
    ELSE IF ps[i].length < 0 THEN <<"negative length", String(ps[i])>>
    ELSE IF Add(ps[i].offset, ps[i].length) > Len(in)
        THEN <<"out of range", String(ps[i])>>
    ELSE IF i + 1 <= Len(ps) /\ Add(ps[i].offset, ps[i].length) >= ps[i + 1].offset
        THEN <<"conflict", String(ps[i]), String(ps[i + 1])>>
    ELSE ValidateTouching(ps, in, i + 1)

\* A validation loop that tests the range before the sign of the length.
RECURSIVE ValidateRangeFirst(_, _, _)
ValidateRangeFirst(ps, in, i) ==
    IF i > Len(ps) THEN <<>>
    ELSE IF ps[i].offset < 0 THEN <<"negative offset", String(ps[i])>>
    ELSE IF Add(ps[i].offset, ps[i].length) > Len(in)
        THEN <<"out of range", String(ps[i])>>
    ELSE IF ps[i].length < 0 THEN <<"negative length", String(ps[i])>>
    ELSE IF i + 1 <= Len(ps) /\ Add(ps[i].offset, ps[i].length) > ps[i + 1].offset
        THEN <<"conflict", String(ps[i]), String(ps[i + 1])>>
    ELSE ValidateRangeFirst(ps, in, i + 1)

\* The validation loop from index i on: the error of the first failing test,
\* <<>> (nil) when the loop ends.
RECURSIVE Validate(_, _, _)
Validate(ps, in, i) ==
    IF i > Len(ps) THEN <<>>
    ELSE IF ps[i].offset < 0 THEN <<"negative offset", String(ps[i])>>
    ELSE IF ps[i].length < 0 THEN <<"negative length", String(ps[i])>>
    ELSE IF Add(ps[i].offset, ps[i].length) > Len(in)
        THEN <<"out of range", String(ps[i])>>
    ELSE IF i + 1 <= Len(ps) /\ Add(ps[i].offset, ps[i].length) > ps[i + 1].offset
        THEN <<"conflict", String(ps[i]), String(ps[i + 1])>>
    ELSE Validate(ps, in, i + 1)

\* input[lo:hi] is in bounds (the input's capacity is taken to be its length).
SliceOK(in, lo, hi) == 0 <= lo /\ lo <= hi /\ hi <= Len(in)

\* input[lo:hi]
Slice(in, lo, hi) == SubSeq(in, lo + 1, hi)

\* A build loop that leaves the cursor at the record's offset.
RECURSIVE BuildNoAdvance(_, _, _, _, _)
BuildNoAdvance(ps, in, i, cursor, out) ==
    IF i > Len(ps) THEN
        IF SliceOK(in, cursor, Len(in))
        THEN [status |-> "ok", output |-> out \o Slice(in, cursor, Len(in)), err |-> <<>>]
        ELSE [status |-> "panic", output |-> <<>>, err |-> <<>>]
    ELSE IF ~SliceOK(in, cursor, ps[i].offset)
        THEN [status |-> "panic", output |-> <<>>, err |-> <<>>]
    ELSE BuildNoAdvance(ps, in, i + 1, ps[i].offset,
                        out \o Slice(in, cursor, ps[i].offset) \o ps[i].data)

\* The build loop from index i on with the given cursor and output so far;
\* a slice expression out of bounds panics.
RECURSIVE Build(_, _, _, _, _)
Build(ps, in, i, cursor, out) ==
    IF i > Len(ps) THEN
        IF SliceOK(in, cursor, Len(in))
        THEN [status |-> "ok", output |-> out \o Slice(in, cursor, Len(in)), err |-> <<>>]
        ELSE [status |-> "panic", output |-> <<>>, err |-> <<>>]
    ELSE IF ~SliceOK(in, cursor, ps[i].offset)
        THEN [status |-> "panic", output |-> <<>>, err |-> <<>>]
    ELSE Build(ps, in, i + 1, Add(ps[i].offset, ps[i].length),
               out \o Slice(in, cursor, ps[i].offset) \o ps[i].data)

\* What PatchBytes returns for the record list ps (before sorting) and input.
PatchBytes(ps, in) ==
    LET sorted == SliceStable(ps)
        err == Validate(sorted, in, 1)
    IN  IF err # <<>> THEN [status |-> "error", output |-> <<>>, err |-> err]
        ELSE Build(sorted, in, 1, 0, <<>>)

\* ------------------------------------------------------------------------
\* Operations
\* ------------------------------------------------------------------------

Init ==
    /\ patches = <<>>
    /\ calls = <<>>
    /\ lastOp = "new"
    /\ input = <<>>
    /\ ret = NoRet

\* The history of requested edits: an edit that consumes no byte of the input
\* and writes none is not an edit.
Requested(o, l, d) ==
    IF l = 0 /\ d = <<>> THEN calls ELSE Append(calls, patch(o, l, d))

\* A Delete that records only positive lengths.
DeleteCallPositive(o, l) ==
    /\ patches' = IF l > 0 THEN Append(patches, patch(o, l, <<>>)) ELSE patches
    /\ calls' = Requested(o, l, <<>>)
    /\ lastOp' = "Delete"
    /\ input' = <<>>
    /\ ret' = NoRet

DeleteCall(o, l) ==
    /\ patches' = IF l # 0 THEN Append(patches, patch(o, l, <<>>)) ELSE patches
    /\ calls' = Requested(o, l, <<>>)
    /\ lastOp' = "Delete"
    /\ input' = <<>>
    /\ ret' = NoRet

InsertBytesCall(o, d) ==
    /\ patches' = IF Len(d) # 0 THEN Append(patches, patch(o, 0, d)) ELSE patches
    /\ calls' = Requested(o, 0, d)
    /\ lastOp' = "Insert"
    /\ input' = <<>>
    /\ ret' = NoRet

RewriteBytesCall(o, l, d) ==
    /\ patches' = IF l # 0 \/ Len(d) # 0 THEN Append(patches, patch(o, l, d)) ELSE patches
    /\ calls' = Requested(o, l, d)
    /\ lastOp' = "Rewrite"
    /\ input' = <<>>
    /\ ret' = NoRet

Reset ==
    /\ patches' = <<>>
    /\ calls' = <<>>
    /\ lastOp' = "Reset"
    /\ input' = <<>>
    /\ ret' = NoRet

\* PatchString / PatchBytes on one of the inputs: the records are sorted in
\* place, also when an error is returned or the build loop panics.
Patch ==
    \E in \in Inputs :
        /\ patches' = SliceStable(patches)
        /\ input' = in
        /\ ret' = PatchBytes(patches, in)
        /\ lastOp' = "Patch"
        /\ UNCHANGED calls

Delete ==
    \E o \in Offsets, l \in Lengths :
        Len(calls) < MaxPatches /\ DeleteCall(o, l)

InsertBytes ==
    \E o \in Offsets, d \in InsertDatas :
        Len(calls) < MaxPatches /\ InsertBytesCall(o, d)

RewriteBytes ==
    \E o \in Offsets, l \in RewriteLengths, d \in RewriteDatas :
        Len(calls) < MaxPatches /\ RewriteBytesCall(o, l, d)

Next == Delete \/ InsertBytes \/ RewriteBytes \/ Reset \/ Patch

Spec == Init /\ [][Next]_vars

\* The same operations with arguments at the edges of int.
DeleteInt ==
    \E o \in IntOffsets, l \in IntLengths :
        Len(calls) < MaxPatchesInt /\ DeleteCall(o, l)

InsertBytesInt ==
    \E o \in IntOffsets, d \in IntDatas :
        Len(calls) < MaxPatchesInt /\ InsertBytesCall(o, d)

RewriteBytesInt ==
    \E o \in IntOffsets, l \in IntLengths, d \in IntDatas :
        Len(calls) < MaxPatchesInt /\ RewriteBytesCall(o, l, d)

NextInt == DeleteInt \/ InsertBytesInt \/ RewriteBytesInt \/ Reset \/ Patch

SpecInt == Init /\ [][NextInt]_vars

\* ------------------------------------------------------------------------
\* Notions the properties are stated in
\* ------------------------------------------------------------------------

\* The consumed span of r is [offset, offset+length), in the integers.
SpanEnd(r) == r.offset + r.length
Covers(r, k) == r.offset <= k /\ k < SpanEnd(r)
Covered(rs, k) == \E i \in 1..Len(rs) : Covers(rs[i], k)
\* Two spans share a byte position.
Overlap(a, b) ==
    /\ a.length > 0 /\ b.length > 0
    /\ a.offset < SpanEnd(b) /\ b.offset < SpanEnd(a)
InRange(r, in) == r.offset >= 0 /\ r.length >= 0 /\ SpanEnd(r) <= Len(in)
PureInsertion(r) == r.length = 0

\* The data of the records of rs selected by Sel, in the order of rs.
RECURSIVE Concat(_)
Concat(rs) == IF rs = <<>> THEN <<>> ELSE Head(rs).data \o Concat(Tail(rs))
DataOf(rs, Sel(_)) == Concat(SelectSeq(rs, Sel))

\* Position by position from k on: what the records at offset k write, in
\* recording order, then the input byte at k unless some span covers it.
RECURSIVE Reference(_, _, _)
Reference(rs, in, k) ==
    IF k > Len(in) THEN <<>>
    ELSE LET At(r) == r.offset = k
         IN  DataOf(rs, At)
             \o (IF k < Len(in) /\ ~Covered(rs, k) THEN <<in[k + 1]>> ELSE <<>>)
             \o Reference(rs, in, k + 1)

Patched == lastOp = "Patch"
ErrKind == IF ret.status = "error" THEN ret.err[1] ELSE "none"

\* ------------------------------------------------------------------------
\* Properties
\* ------------------------------------------------------------------------

\* C1: whenever PatchBytes returns no error, its output is the reference
\* construction over the recorded edits: at every position the data of the
\* records at that offset in recording order, followed by the input byte
\* there unless a record's span covers it; so every uncovered input byte
\* appears once and in order, and no covered byte appears.
C1_OutputIsReference ==
    (Patched /\ ret.status = "ok") => ret.output = Reference(calls, input, 0)

\* An insertion, a deletion and a rewrite applied together to "abc".
C1_Witness ==
    /\ Patched /\ ret.status = "ok" /\ input = InputOf(3)
    /\ \E i, j, k \in 1..Len(calls) :
        /\ calls[i].length = 0
        /\ calls[j].length > 0 /\ calls[j].data = <<>>
        /\ calls[k].length > 0 /\ calls[k].data # <<>>

\* C2: after a successful Patch the data of the insertions recorded at one
\* offset stand in the output contiguously, in the order of the calls, at the
\* place of that offset (behind what the records of smaller offsets and the
\* uncovered input bytes before the offset contribute).
C2_InsertsInCallOrder ==
    (Patched /\ ret.status = "ok") =>
        \A k \in 0..Len(input) :
            LET InsAt(r) == r.offset = k /\ PureInsertion(r)
                Before(r) == r.offset < k
                ins == DataOf(calls, InsAt)
                pre == Len(DataOf(calls, Before))
                       + Cardinality({j \in 0..(k - 1) : ~Covered(calls, j)})
            IN  SubSeq(ret.output, pre + 1, pre + Len(ins)) = ins

\* Two insertions at one offset with a record of another offset recorded
\* between them.
C2_Witness ==
    /\ Patched /\ ret.status = "ok" /\ Len(calls) = 3
    /\ PureInsertion(calls[1]) /\ PureInsertion(calls[3])
    /\ calls[1].offset = calls[3].offset
    /\ calls[1].data # calls[3].data
    /\ calls[2].offset < calls[1].offset

\* C3: with only records of positive length that lie in the input, Patch
\* returns a conflict exactly if two of the records share a byte position,
\* and succeeds otherwise; the two records the conflict names are recorded
\* ones and they overlap.
C3_ConflictIffOverlap ==
    (Patched /\ \A i \in 1..Len(calls) : calls[i].length > 0 /\ InRange(calls[i], input)) =>
        LET some == \E i, j \in 1..Len(calls) : i # j /\ Overlap(calls[i], calls[j])
        IN  /\ some => ErrKind = "conflict"
            /\ ~some => ret.status = "ok"
            /\ ErrKind = "conflict" =>
                \E i, j \in 1..Len(calls) :
                    /\ i # j
                    /\ ret.err[2] = String(calls[i])
                    /\ ret.err[3] = String(calls[j])
                    /\ Overlap(calls[i], calls[j])

\* A conflict between the first and the third record, none with the second.
C3_Witness ==
    /\ Patched /\ ErrKind = "conflict" /\ Len(calls) = 3
    /\ \A i \in 1..3 : calls[i].length > 0 /\ InRange(calls[i], input)
    /\ Overlap(calls[1], calls[3])
    /\ ~Overlap(calls[1], calls[2]) /\ ~Overlap(calls[2], calls[3])

\* C4: an insertion at offset k and one other record that is an insertion at
\* k or a deletion or rewrite whose span starts or ends at k, both in range
\* and recorded in either order with nothing else, are patched successfully.
C4_InsertionNeverConflicts ==
    (/\ Patched /\ Len(calls) = 2
     /\ InRange(calls[1], input) /\ InRange(calls[2], input)
     /\ \E i, j \in 1..2 :
            /\ i # j
            /\ PureInsertion(calls[i])
            /\ \/ PureInsertion(calls[j]) /\ calls[j].offset = calls[i].offset
               \/ calls[j].length > 0 /\ calls[j].offset = calls[i].offset
               \/ calls[j].length > 0 /\ SpanEnd(calls[j]) = calls[i].offset)
    => ret.status = "ok"

\* The recording orders of rs: the permutations of its indices.
Perms(n) == {f \in [1..n -> 1..n] : \A i, j \in 1..n : f[i] = f[j] => i = j}
Permuted(rs, f) == [i \in 1..Len(rs) |-> rs[f[i]]]

\* The order f keeps the insertions that share an offset in their order.
KeepsInsertions(rs, f) ==
    \A i, j \in 1..Len(rs) :
        (/\ i < j
         /\ PureInsertion(rs[f[i]]) /\ PureInsertion(rs[f[j]])
         /\ rs[f[i]].offset = rs[f[j]].offset) => f[i] < f[j]

\* The same output bytes, or an error of the same kind.
SameResult(a, b) ==
    /\ a.status = b.status
    /\ a.status = "ok" => a.output = b.output
    /\ a.status = "error" => a.err[1] = b.err[1]

\* C5: any other recording order of the same edits that keeps the insertions
\* sharing an offset in their order gives the same Patch result on the input.
C5_OrderIndependence ==
    Patched =>
        \A f \in Perms(Len(calls)) :
            KeepsInsertions(calls, f) =>
                SameResult(PatchBytes(Permuted(calls, f), input), ret)

\* The records of rs at offset k, in the order of rs.
AtOffset(rs, k) == LET At(r) == r.offset = k IN SelectSeq(rs, At)
OffsetsOf(rs) == {rs[i].offset : i \in 1..Len(rs)}

\* C6: Patch calls leave the recorded edits intact: the Patcher holds the
\* requested edits, those of equal offset in recording order, whatever Patch
\* calls went before; so Patch on any input returns what it returns for the
\* edits as they were recorded, and the result just returned is that one.
C6_PatchLeavesEditsIntact ==
    /\ Len(patches) = Len(calls)
    /\ \A k \in OffsetsOf(calls) \cup OffsetsOf(patches) :
            AtOffset(patches, k) = AtOffset(calls, k)
    /\ \A in \in Inputs : PatchBytes(patches, in) = PatchBytes(calls, in)
    /\ Patched => ret = PatchBytes(calls, input)

\* Edits just found out of range on a short input, sorted in place by that
\* Patch call into another order than recorded, apply to a longer input.
C6_Witness ==
    /\ Patched /\ ErrKind = "out of range" /\ Len(input) < 3
    /\ patches # calls
    /\ PatchBytes(patches, InputOf(3)).status = "ok"
    /\ PatchBytes(patches, InputOf(3)).output # InputOf(3)

\* C7: Empty() holds exactly if no edit that consumes or writes something
\* was requested since creation or the last Reset (Delete of length 0, Insert
\* of no data and Rewrite of length 0 with no data are the calls that request
\* none); a Patch of an empty Patcher returns its input and no error.
C7_EmptyIffNothingRecorded ==
    /\ Empty <=> calls = <<>>
    /\ lastOp \in {"new", "Reset"} => Empty
    /\ (Patched /\ Empty) => (ret.status = "ok" /\ ret.output = input)

\* A Delete of negative length makes the Patcher non-empty.
C7_Witness ==
    /\ lastOp = "Delete" /\ ~Empty /\ Len(calls) = 1
    /\ calls[1].length < 0

\* C8: with a single record Patch returns "negative offset" if the offset is
\* negative, else "negative length" if the length is, else "out of range" if
\* offset+length exceeds the length of the input, each naming the record,
\* and succeeds otherwise.
C8_SingleRecordValidation ==
    (Patched /\ Len(calls) = 1) =>
        LET r == calls[1] IN
        IF r.offset < 0 THEN ret.status = "error" /\ ret.err = <<"negative offset", String(r)>>
        ELSE IF r.length < 0 THEN ret.status = "error" /\ ret.err = <<"negative length", String(r)>>
        ELSE IF SpanEnd(r) > Len(input)
            THEN ret.status = "error" /\ ret.err = <<"out of range", String(r)>>
        ELSE ret.status = "ok"

\* The tests of the validation scan on record i of the sorted list, in the
\* order they are made.
Failure(ps, in, i) ==
    IF ps[i].offset < 0 THEN <<"negative offset", String(ps[i])>>
    ELSE IF ps[i].length < 0 THEN <<"negative length", String(ps[i])>>
    ELSE IF Add(ps[i].offset, ps[i].length) > Len(in) THEN <<"out of range", String(ps[i])>>
    ELSE IF i < Len(ps) /\ Add(ps[i].offset, ps[i].length) > ps[i + 1].offset
        THEN <<"conflict", String(ps[i]), String(ps[i + 1])>>
    ELSE <<>>

\* C9: Patch reports an error exactly if some record of the sorted list
\* fails a test, and the error is the first failing test (negative offset,
\* negative length, out of range, conflict with the next) of the first such
\* record in sorted order.
C9_FirstFailureReported ==
    Patched =>
        LET failing == {i \in 1..Len(patches) : Failure(patches, input, i) # <<>>}
        IN  IF failing = {} THEN ret.status # "error"
            ELSE LET first == CHOOSE i \in failing : \A j \in failing : i <= j
                 IN  ret.status = "error" /\ ret.err = Failure(patches, input, first)

\* Two conflicts in the sorted list, a later record with a negative length:
\* the first conflict is the one reported.
C9_Witness ==
    /\ Patched /\ Len(patches) = 3
    /\ Failure(patches, input, 1) # <<>> /\ Failure(patches, input, 1)[1] = "conflict"
    /\ Failure(patches, input, 2) # <<>>
    /\ Failure(patches, input, 3) # <<>> /\ Failure(patches, input, 3)[1] = "negative length"
    /\ ret.err = <<"conflict", String(patches[1]), String(patches[2])>>

\* C10: Patch returns one of the four validation errors or builds its output
\* with every slice of the input in bounds; it never slices out of bounds.
C10_NeverOutOfBounds ==
    Patched =>
        \/ ErrKind \in {"negative offset", "negative length", "out of range", "conflict"}
        \/ ret.status = "ok"

====
